---------------------------- MODULE Spec2Model ----------------------------
(***************************************************************************)
(* A&I ARMOUR backend (src/backend.py, src/api_server.py).                 *)
(*                                                                         *)
(* The model covers the agent pipeline (AIAgent.execute_task and its three *)
(* stages), the audit table written by DatabaseManager.log_action, the     *)
(* fact-check gate AIAgent.requires_fact_check, the three loops of         *)
(* AutonomousScheduler and the route handlers that call the agents.        *)
(*                                                                         *)
(* Everything runs on one asyncio event loop: a coroutine runs without     *)
(* interruption from one await to the next.  Each action below is one such *)
(* uninterrupted segment.  Python strings are sequences of one-character   *)
(* strings, dicts are functions from keys to values.                       *)
(***************************************************************************)
EXTENDS Integers, Sequences, FiniteSets, TLC

(***************************************************************************)
(* Bounds of the model.                                                    *)
(***************************************************************************)
\* number of fragments a task description of the gate check is built from
MaxWords == 3
\* number of HTTP requests that call an agent
MaxRequests == 2
\* number of times autonomous mode is started
MaxStarts == 2
\* number of execute_task calls in one behaviour
MaxCalls == 5
\* number of days a timed behaviour covers
MaxDays == 1
\* number of manual commands
MaxCommands == 2

(***************************************************************************)
(* Strings.                                                                *)
(***************************************************************************)
UpperCase == <<"A","B","C","D","E","F","G","H","I","J","K","L","M","N","O","P","Q","R","S","T","U","V","W","X","Y","Z">>
LowerCase == <<"a","b","c","d","e","f","g","h","i","j","k","l","m","n","o","p","q","r","s","t","u","v","w","x","y","z">>

\* str.lower() on one character
LowerChar(c) ==
    LET at == { i \in 1..Len(UpperCase) : UpperCase[i] = c } IN
    IF at = {} THEN c ELSE LowerCase[CHOOSE i \in at : TRUE]

RECURSIVE Lower(_)
\* str.lower()
Lower(s) == IF s = << >> THEN << >> ELSE <<LowerChar(Head(s))>> \o Lower(Tail(s))

\* the Python expression  needle in hay  on two strings
StrIn(needle, hay) ==
    \E off \in 0..(Len(hay) - Len(needle)) :
        SubSeq(hay, off + 1, off + Len(needle)) = needle

RECURSIVE Concat(_)
\* the concatenation of a sequence of strings
Concat(ws) == IF ws = <<>> THEN <<>> ELSE Head(ws) \o Concat(Tail(ws))

(***************************************************************************)
(* The fact-check gate, AIAgent.requires_fact_check.                       *)
(***************************************************************************)
fact_check_keywords ==
    << <<"p","r","i","c","e">>,
       <<"i","n","v","o","i","c","e">>,
       <<"p","a","y","m","e","n","t">>,
       <<"f","i","n","a","n","c","i","a","l">>,
       <<"c","o","n","t","r","a","c","t">> >>

\* a gate that matches whole words only: keyword in task.lower().split()
RequiresFactCheckWholeWord(task) ==
    LET lowered == Lower(task) IN
    \E k \in 1..Len(fact_check_keywords) :
        LET kw == fact_check_keywords[k] IN
        \E off \in 0..(Len(lowered) - Len(kw)) :
            /\ SubSeq(lowered, off + 1, off + Len(kw)) = kw
            /\ off = 0 \/ lowered[off] = " "
            /\ off + Len(kw) = Len(lowered) \/ lowered[off + Len(kw) + 1] = " "

\* a gate that forgets to lower-case the task
RequiresFactCheckCaseSensitive(task) ==
    \E k \in 1..Len(fact_check_keywords) : StrIn(fact_check_keywords[k], task)

\* any(keyword in task.lower() for keyword in fact_check_keywords)
RequiresFactCheck(task) ==
    LET lowered == Lower(task) IN
    \E k \in 1..Len(fact_check_keywords) : StrIn(fact_check_keywords[k], lowered)

(***************************************************************************)
(* Task descriptions handed to the gate check: every concatenation of at   *)
(* most MaxWords fragments.  The fragments spell the keywords in mixed     *)
(* case, split them over two fragments and embed them in longer words.     *)
(***************************************************************************)
Fragments ==
    { <<"P","r","i","c">>, <<"i","n","g">>, <<"e">>, <<"I","N","V","O","I","C","E">>,
      <<"p","a","y">>, <<"m","e","n","t">>, <<"F","i","n","a","n","c">>, <<"i","a","l">>,
      <<"C","o","n","t","r">>, <<"a","c","t">>, <<"q","u","o","t","e">>, <<" ">> }

GateTasks ==
    { Concat(ws) : ws \in UNION { [1..n -> Fragments] : n \in 0..MaxWords } }

(***************************************************************************)
(* Dicts and JSON.  A dict is a function from its keys.  A value of a      *)
(* context dict is a pair <<type, payload>>; the payload of a "dict" is a  *)
(* dict of such values.                                                    *)
(***************************************************************************)
EmptyDict == <<>>

\* d[k] = v
Put(d, k, v) == [x \in (DOMAIN d) \cup {k} |-> IF x = k THEN v ELSE d[x]]

\* d.get(k, default)
Get(d, k, default) == IF k \in DOMAIN d THEN d[k] ELSE default

RECURSIVE JsonSerializable(_)
\* whether json.dumps accepts the value: it raises TypeError on a datetime
\* and on an Enum member
JsonSerializable(v) ==
    CASE v[1] = "dict" -> \A k \in DOMAIN v[2] : JsonSerializable(v[2][k])
      [] v[1] \in {"datetime", "enum"} -> FALSE
      [] OTHER -> TRUE

(***************************************************************************)
(* The three stages of the pipeline.                                       *)
(***************************************************************************)
\* AIAgent.execute_with_grok: the dict it returns.  The f-string of field
\* result is kept as its literal part and the text substituted into it.
ExecuteWithGrok(agent_type, task, context) ==
    [ agent |-> agent_type,
      task |-> task,
      result |-> <<"Grok executed: ", task>>,
      confidence |-> "0.85",
      data |-> context ]

\* a verifier that rewrites the executor's result field
VerifyWithClaudeClobbers(result, original_task) ==
    Put(Put(result, "verified", TRUE),
        "result", <<"Claude verified: ", original_task>>)

\* AIAgent.verify_with_claude: the dict it returns
VerifyWithClaude(result, original_task) ==
    Put(Put(result, "verified", TRUE),
        "verification_notes", "Output verified by Claude - no hallucinations detected")

\* a fact checker that returns the result without marking it
FactCheckForgetsMark(result) == result

\* AIAgent.fact_check: the dict it returns
FactCheck(result) == Put(result, "fact_checked", TRUE)

(***************************************************************************)
(* The agents and the calls the repository makes on them.                  *)
(***************************************************************************)
AgentTypes == {"sales", "finance", "logistics", "contractor", "support"}

\* SalesAgent.process_enquiry(email_data), with task
\* f"Process sales enquiry from {email_data.get('from')}"
ProcessEnquiry(task, email_data) ==
    [ agent |-> "sales",
      task |-> task,
      context |-> [ email |-> <<"dict", email_data>>,
                    action |-> <<"str", "categorize_lead_and_draft_response">> ] ]

\* SalesAgent.send_quote(lead), with task f"Generate quote for {lead.name}";
\* lead is the dict asdict(lead)
SendQuote(task, lead) ==
    [ agent |-> "sales",
      task |-> task,
      context |-> [ lead |-> <<"dict", lead>>,
                    pricing |-> <<"dict", [ nvidia_box |-> <<"int", "3500">>,
                                            custom_tuning |-> <<"int", "1200">>,
                                            installation |-> <<"int", "800">> ]>> ] ]

\* SalesAgent.follow_up_leads()
FollowUpLeads ==
    [ agent |-> "sales",
      task |-> "Follow up with warm leads",
      context |-> [ max_leads |-> <<"int", "10">> ] ]

\* FinanceAgent.generate_financial_report()
GenerateFinancialReport ==
    [ agent |-> "finance",
      task |-> "Generate financial report",
      context |-> [ period |-> <<"str", "month">> ] ]

\* LogisticsAgent.check_inventory()
CheckInventory ==
    [ agent |-> "logistics",
      task |-> "Check inventory levels",
      context |-> EmptyDict ]

\* SupportAgent.monitor_systems()
MonitorSystems ==
    [ agent |-> "support",
      task |-> "Monitor deployed systems",
      context |-> [ systems_count |-> <<"int", "37">> ] ]

\* POST /api/leads: the Lead built by create_lead, as asdict gives it
CreatedLead ==
    [ id |-> <<"str", "LEAD-1">>,
      name |-> <<"str", "ACME">>,
      email |-> <<"str", "client@example.com">>,
      company |-> <<"none", "">>,
      phone |-> <<"none", "">>,
      status |-> <<"enum", "LeadStatus.WARM">>,
      source |-> <<"str", "website">>,
      created_at |-> <<"datetime", "now">>,
      last_contact |-> <<"datetime", "now">>,
      notes |-> <<"list", "">>,
      estimated_value |-> <<"float", "12400">> ]

\* POST /api/leads/{lead_id}/follow-up, with task
\* f"Follow up with lead {lead_id}"
FollowUpLead(task, lead_id) ==
    [ agent |-> "sales",
      task |-> task,
      context |-> [ lead_id |-> <<"str", lead_id>> ] ]

\* POST /api/invoices/{invoice_id}/payment-reminder, with task
\* f"Send payment reminder for {invoice_id}"
PaymentReminder(task, invoice_id) ==
    [ agent |-> "finance",
      task |-> task,
      context |-> [ invoice_id |-> <<"str", invoice_id>> ] ]

\* the calls the HTTP routes make on the agents
ApiCalls ==
    { SendQuote("Generate quote for ACME", CreatedLead),
      FollowUpLead("Follow up with lead L1", "L1"),
      PaymentReminder("Send payment reminder for INV-7", "INV-7"),
      MonitorSystems }

\* a manual_command that forgets to lower-case the command
ManualCommandCaseSensitive(command) ==
    LET ctx == [ command |-> <<"str", command>> ] IN
    IF StrIn(<<"q","u","o","t","e">>, command)
    THEN << [ agent |-> "sales", task |-> "Generate quote", context |-> ctx ] >>
    ELSE IF StrIn(<<"i","n","v","o","i","c","e">>, command)
    THEN << [ agent |-> "finance", task |-> "Handle invoice", context |-> ctx ] >>
    ELSE << >>

\* a rule of manual_command that tests the invoice keyword before the quote
\* keyword
ManualCommandInvoiceFirst(command) ==
    LET lowered == Lower(command)
        ctx == [ command |-> <<"str", command>> ]
    IN  IF StrIn(<<"i","n","v","o","i","c","e">>, lowered)
        THEN << [ agent |-> "finance", task |-> "Handle invoice", context |-> ctx ] >>
        ELSE IF StrIn(<<"q","u","o","t","e">>, lowered)
        THEN << [ agent |-> "sales", task |-> "Generate quote", context |-> ctx ] >>
        ELSE << >>

\* a quote rule of manual_command that lets the gate keywords of the command
\* text choose a task description that holds one
ManualCommandGateOnText(command) ==
    LET lowered == Lower(command)
        ctx == [ command |-> <<"str", command>> ]
    IN  IF StrIn(<<"q","u","o","t","e">>, lowered)
        THEN << [ agent |-> "sales",
                  task |-> IF RequiresFactCheck(command)
                           THEN "Handle invoice" ELSE "Generate quote",
                  context |-> ctx ] >>
        ELSE IF StrIn(<<"i","n","v","o","i","c","e">>, lowered)
        THEN << [ agent |-> "finance", task |-> "Handle invoice", context |-> ctx ] >>
        ELSE << >>

\* AIArmourSystem.manual_command: the execute_task call it makes, if any
ManualCommand(command) ==
    LET lowered == Lower(command)
        ctx == [ command |-> <<"str", command>> ]
    IN  IF StrIn(<<"q","u","o","t","e">>, lowered)
        THEN << [ agent |-> "sales", task |-> "Generate quote", context |-> ctx ] >>
        ELSE IF StrIn(<<"i","n","v","o","i","c","e">>, lowered)
        THEN << [ agent |-> "finance", task |-> "Handle invoice", context |-> ctx ] >>
        ELSE << >>

\* the commands given to manual_command: "please send INVOICE now",
\* "please send invoice now", "Quote for the payment contract",
\* "quote and invoice",
\* "Invoice the QUOTE", "hello" and the empty command
Commands ==
    { <<"p","l","e","a","s","e"," ","s","e","n","d"," ","I","N","V","O","I","C","E"," ","n","o","w">>,
      <<"p","l","e","a","s","e"," ","s","e","n","d"," ","i","n","v","o","i","c","e"," ","n","o","w">>,
      <<"Q","u","o","t","e"," ","f","o","r"," ","t","h","e"," ","p","a","y","m","e","n","t"," ","c","o","n","t","r","a","c","t">>,
      <<"q","u","o","t","e"," ","a","n","d"," ","i","n","v","o","i","c","e">>,
      <<"I","n","v","o","i","c","e"," ","t","h","e"," ","Q","U","O","T","E">>,
      <<"h","e","l","l","o">>,
      <<>> }

\* manual_command's routing of each of them
RouteOf == [c \in Commands |-> ManualCommand(c)]

\* The characters of the task descriptions above.  A task description is
\* held as one string; the gate reads its characters.
Chars(s) ==
    CASE s = "Process sales enquiry from auto@system" ->
            <<"P","r","o","c","e","s","s"," ","s","a","l","e","s"," ","e","n","q","u","i","r","y"," ","f","r","o","m"," ","a","u","t","o","@","s","y","s","t","e","m">>
      [] s = "Generate quote for ACME" ->
            <<"G","e","n","e","r","a","t","e"," ","q","u","o","t","e"," ","f","o","r"," ","A","C","M","E">>
      [] s = "Follow up with warm leads" ->
            <<"F","o","l","l","o","w"," ","u","p"," ","w","i","t","h"," ","w","a","r","m"," ","l","e","a","d","s">>
      [] s = "Generate financial report" ->
            <<"G","e","n","e","r","a","t","e"," ","f","i","n","a","n","c","i","a","l"," ","r","e","p","o","r","t">>
      [] s = "Check inventory levels" ->
            <<"C","h","e","c","k"," ","i","n","v","e","n","t","o","r","y"," ","l","e","v","e","l","s">>
      [] s = "Monitor deployed systems" ->
            <<"M","o","n","i","t","o","r"," ","d","e","p","l","o","y","e","d"," ","s","y","s","t","e","m","s">>
      [] s = "Follow up with lead L1" ->
            <<"F","o","l","l","o","w"," ","u","p"," ","w","i","t","h"," ","l","e","a","d"," ","L","1">>
      [] s = "Generate quote" -> <<"G","e","n","e","r","a","t","e"," ","q","u","o","t","e">>
      [] s = "Handle invoice" -> <<"H","a","n","d","l","e"," ","i","n","v","o","i","c","e">>
      [] s = "Send payment reminder for INV-7" ->
            <<"S","e","n","d"," ","p","a","y","m","e","n","t"," ","r","e","m","i","n","d","e","r"," ","f","o","r"," ","I","N","V","-","7">>

\* the task descriptions above
TaskDescriptions ==
    { "Process sales enquiry from auto@system", "Generate quote for ACME",
      "Follow up with warm leads", "Generate financial report",
      "Check inventory levels", "Monitor deployed systems",
      "Follow up with lead L1", "Send payment reminder for INV-7",
      "Generate quote", "Handle invoice" }

\* self.requires_fact_check(task) for each of them
GateOf == [t \in TaskDescriptions |-> RequiresFactCheck(Chars(t))]

\* an hourly iteration that checks the inventory before the inbox
HourlyCallsInventoryFirst ==
    << CheckInventory,
       ProcessEnquiry("Process sales enquiry from auto@system",
                      [ from |-> <<"str", "auto@system">>,
                        subject |-> <<"str", "Check inbox">> ]),
       MonitorSystems >>

\* the agent calls of one iteration of each scheduler loop, in order
HourlyCalls ==
    << ProcessEnquiry("Process sales enquiry from auto@system",
                      [ from |-> <<"str", "auto@system">>,
                        subject |-> <<"str", "Check inbox">> ]),
       CheckInventory,
       MonitorSystems >>

DailyCalls == << FollowUpLeads, GenerateFinancialReport >>

ContinuousCalls == << >>

LoopNames == {"hourly", "daily", "continuous"}

LoopCalls(name) ==
    CASE name = "hourly" -> HourlyCalls
      [] name = "daily" -> DailyCalls
      [] name = "continuous" -> ContinuousCalls

(***************************************************************************)
(* Durations, in tenths of a second.                                       *)
(***************************************************************************)
GrokLatency == 5
ClaudeLatency == 3
FactCheckLatency == 2
HourlyInterval == 36000
DailyInterval == 864000
ContinuousInterval == 3000

\* the time a timed behaviour covers
Horizon == MaxDays * DailyInterval + HourlyInterval

LoopInterval(name) ==
    CASE name = "hourly" -> HourlyInterval
      [] name = "daily" -> DailyInterval
      [] name = "continuous" -> ContinuousInterval

Starts == 1..MaxStarts
ReqIds == 1..MaxRequests
CmdIds == 1..MaxCommands
LoopIds == Starts \X LoopNames

VARIABLES
    is_active,      \* AIAgent.is_active of each agent
    agent_actions,  \* the rows of table agent_actions, in insertion order
    calls,          \* every execute_task call made so far
    reqs,           \* the HTTP requests that call an agent
    cmds,           \* the calls of AIArmourSystem.manual_command
    loops,          \* the loop coroutines of AutonomousScheduler
    start_pc,       \* the coroutines AutonomousScheduler.start
    is_running,     \* AutonomousScheduler.is_running
    now,            \* the time, in tenths of a second
    timed,          \* whether awaits take the time the code gives them
    faults,         \* whether the environment fails: an awaited stage raises
                    \* (provider error, cancellation), sqlite3 raises
    stop_at,        \* when stop() was last asked of the scheduler, -1 before
    gate_task,      \* the task description handed to requires_fact_check
    gate_pc,        \* "ready" before that call, "done" after it
    gate_out        \* what requires_fact_check returned

gate_vars == <<gate_task, gate_pc, gate_out>>
agent_vars == <<is_active, agent_actions, calls>>
sched_vars == <<loops, start_pc, is_running>>
time_vars == <<now, timed, stop_at, faults>>

vars == <<is_active, agent_actions, calls, reqs, cmds, loops, start_pc, is_running,
          now, timed, stop_at, faults, gate_task, gate_pc, gate_out>>

(***************************************************************************)
(* Awaits.  Without timing an await may return at any later step; with     *)
(* timing it returns when its asyncio.sleep has elapsed.                   *)
(***************************************************************************)
After(d) == IF timed THEN now + d ELSE 0

Due(wake) == timed => wake <= now

\* how many execute_task calls a behaviour holds: MaxCalls, and under the
\* durations of the code as many as the loops make up to the horizon
CallCap ==
    IF timed
    THEN (Horizon \div HourlyInterval + 1) * Len(HourlyCalls)
         + (Horizon \div DailyInterval + 1) * Len(DailyCalls)
    ELSE MaxCalls

\* what sqlite3 may do in log_action: db_ok is false when it raises
DbOutcomes == IF faults THEN BOOLEAN ELSE {TRUE}

InFlight(call) == call.pc \in {"grok", "claude", "fact"}

(***************************************************************************)
(* AIAgent.execute_task, one segment at a time.  Each operator gives the   *)
(* call record, the audit table and the activity flags the segment leaves. *)
(***************************************************************************)
\* Entry, up to the first await (lines 195-198 and 227).  Four fields record
\* the history of the call: active_before is the flag as the call found it,
\* active_after the flag as the call left it, overlapped whether another call
\* on the same agent was in flight during it, fault what raised in it
\* ("stage": an awaited stage, "log": log_action).
Enter(cs, active, inv) ==
    LET same(c) == InFlight(cs[c]) /\ cs[c].agent = inv.agent
        new == [ agent |-> inv.agent,
                 task |-> inv.task,
                 context |-> inv.context,
                 pc |-> "grok",
                 result |-> EmptyDict,
                 wake |-> After(GrokLatency),
                 active_before |-> active[inv.agent],
                 overlapped |-> \E c \in 1..Len(cs) : same(c),
                 active_after |-> FALSE,
                 fault |-> "none" ]
    IN  [ calls |-> Append([c \in 1..Len(cs) |->
                               IF same(c) THEN [cs[c] EXCEPT !.overlapped = TRUE]
                               ELSE cs[c]],
                           new),
          active |-> [active EXCEPT ![inv.agent] = TRUE] ]

\* DatabaseManager.log_action: whether the row is inserted.  json.dumps
\* raises on details it cannot serialise, sqlite3 raises when db_ok is false.
LogActionInserts(action, db_ok) ==
    JsonSerializable(<<"dict", action.details.data>>) /\ db_ok

\* the segment has reached another await
Suspended(call) ==
    [ call |-> call, audit |-> agent_actions, active |-> is_active ]

\* an exception leaves execute_task: nothing below the raising line runs
Raised(call, fault) ==
    [ call |-> [call EXCEPT !.pc = "raised",
                            !.active_after = is_active[call.agent],
                            !.fault = fault],
      audit |-> agent_actions,
      active |-> is_active ]

\* an execute_task that counts the calls in flight: it clears the flag only
\* when no other call on the agent is in flight
LogAndReturnCounts(c, call, db_ok) ==
    LET action == [ agent_type |-> call.agent,
                    action |-> call.task,
                    timestamp |-> now,
                    details |-> call.result,
                    success |-> Get(call.result, "success", FALSE),
                    call |-> c ]
        others == \E d \in 1..Len(calls) :
                      d # c /\ InFlight(calls[d]) /\ calls[d].agent = call.agent
    IN  IF LogActionInserts(action, db_ok)
        THEN [ call |-> [call EXCEPT !.pc = "returned", !.active_after = others],
               audit |-> Append(agent_actions, action),
               active |-> [is_active EXCEPT ![call.agent] = others] ]
        ELSE Raised(call, "log")

\* an execute_task that stamps the action with the time of day only, as the
\* strftime('%H:%M:%S') of the scheduler's messages does
LogAndReturnTimeOfDay(c, call, db_ok) ==
    LET action == [ agent_type |-> call.agent,
                    action |-> call.task,
                    timestamp |-> now % DailyInterval,
                    details |-> call.result,
                    success |-> Get(call.result, "success", FALSE),
                    call |-> c ]
    IN  IF LogActionInserts(action, db_ok)
        THEN [ call |-> [call EXCEPT !.pc = "returned", !.active_after = FALSE],
               audit |-> Append(agent_actions, action),
               active |-> [is_active EXCEPT ![call.agent] = FALSE] ]
        ELSE Raised(call, "log")

\* lines 210-221, with final_result in call.result
LogAndReturn(c, call, db_ok) ==
    LET action == [ agent_type |-> call.agent,
                    action |-> call.task,
                    timestamp |-> now,
                    details |-> call.result,
                    success |-> Get(call.result, "success", FALSE),
                    call |-> c ]
    IN  IF LogActionInserts(action, db_ok)
        THEN [ call |-> [call EXCEPT !.pc = "returned", !.active_after = FALSE],
               audit |-> Append(agent_actions, action),
               active |-> [is_active EXCEPT ![call.agent] = FALSE] ]
        ELSE Raised(call, "log")

\* an execute_task that fact-checks the executor's output and verifies last
ResumeFactCheckFirst(c, db_ok) ==
    LET call == calls[c] IN
    CASE call.pc = "grok" ->
            LET r == ExecuteWithGrok(call.agent, call.task, call.context)
            IN  IF GateOf[call.task]
                THEN Suspended([call EXCEPT !.result = r, !.pc = "fact",
                                            !.wake = After(FactCheckLatency)])
                ELSE Suspended([call EXCEPT !.result = r, !.pc = "claude",
                                            !.wake = After(ClaudeLatency)])
      [] call.pc = "fact" ->
            Suspended([call EXCEPT !.result = FactCheck(call.result),
                                   !.pc = "claude",
                                   !.wake = After(ClaudeLatency)])
      [] call.pc = "claude" ->
            LogAndReturn(c, [call EXCEPT !.result =
                                VerifyWithClaude(call.result, call.task)], db_ok)

\* the await of call c returns: the segment up to the next await or the return
Resume(c, db_ok) ==
    LET call == calls[c] IN
    CASE call.pc = "grok" ->
            LET r == ExecuteWithGrok(call.agent, call.task, call.context)
            IN  Suspended([call EXCEPT !.result = r,
                                       !.pc = "claude",
                                       !.wake = After(ClaudeLatency)])
      [] call.pc = "claude" ->
            LET r == VerifyWithClaude(call.result, call.task)
            IN  IF GateOf[call.task]
                THEN Suspended([call EXCEPT !.result = r, !.pc = "fact",
                                            !.wake = After(FactCheckLatency)])
                ELSE LogAndReturn(c, [call EXCEPT !.result = r], db_ok)
      [] call.pc = "fact" ->
            LogAndReturn(c, [call EXCEPT !.result = FactCheck(call.result)], db_ok)

\* an execute_task that awaits a failed stage again
AwaitRaisesRetries(c) == Suspended([calls[c] EXCEPT !.fault = "stage"])

\* the await of call c raises (the provider fails or the await is cancelled)
AwaitRaises(c) == Raised(calls[c], "stage")

(***************************************************************************)
(* Initial state: AIArmourSystem.__init__                                  *)
(***************************************************************************)
SystemInit ==
    /\ is_active = [a \in AgentTypes |-> FALSE]
    /\ agent_actions = << >>
    /\ calls = << >>
    /\ reqs = [i \in ReqIds |-> [pc |-> "idle", cid |-> 0]]
    /\ cmds = [k \in CmdIds |->
                [pc |-> "idle", command |-> << >>, cid |-> 0, ret |-> << >>]]
    /\ loops = [l \in LoopIds |-> [pc |-> "unborn", k |-> 0, cid |-> 0, wake |-> 0]]
    /\ start_pc = [s \in Starts |-> "unborn"]
    /\ is_running = FALSE
    /\ now = 0
    /\ stop_at = -1

GateIdle ==
    /\ gate_task = << >>
    /\ gate_pc = "ready"
    /\ gate_out = FALSE

(***************************************************************************)
(* HTTP requests that call an agent (src/api_server.py).                   *)
(***************************************************************************)
\* a route handler calls execute_task and suspends in its first await
RequestArrives(i, inv) ==
    /\ reqs[i].pc = "idle"
    /\ Len(calls) < CallCap
    /\ LET e == Enter(calls, is_active, inv) IN
        /\ calls' = e.calls
        /\ is_active' = e.active
    /\ reqs' = [reqs EXCEPT ![i] = [pc |-> "awaiting", cid |-> Len(calls) + 1]]
    /\ UNCHANGED <<agent_actions, cmds, sched_vars, time_vars, gate_vars>>

\* what the handler is left with after a segment of its call
ReqAfter(req, call) ==
    CASE call.pc = "returned" -> [req EXCEPT !.pc = "returned"]
      [] call.pc = "raised" -> [req EXCEPT !.pc = "raised"]
      [] OTHER -> req

\* the await the handler's call is suspended in returns
RequestResumes(i) ==
    /\ reqs[i].pc = "awaiting"
    /\ Due(calls[reqs[i].cid].wake)
    /\ \E db_ok \in DbOutcomes :
        LET s == Resume(reqs[i].cid, db_ok) IN
        /\ calls' = [calls EXCEPT ![reqs[i].cid] = s.call]
        /\ agent_actions' = s.audit
        /\ is_active' = s.active
        /\ reqs' = [reqs EXCEPT ![i] = ReqAfter(reqs[i], s.call)]
    /\ UNCHANGED <<cmds, sched_vars, time_vars, gate_vars>>

(***************************************************************************)
(* AIArmourSystem.manual_command, as POST /api/command calls it.           *)
(***************************************************************************)
\* what manual_command returns: None, or the dict execute_task returned
None == <<"None">>
Returned(result) == <<"dict", result>>

\* manual_command(command) up to its first await; when no rule matches it
\* falls off the end of the function and returns None
CommandArrives(k, command) ==
    /\ cmds[k].pc = "idle"
    /\ IF RouteOf[command] = << >>
       THEN /\ cmds' = [cmds EXCEPT ![k] = [pc |-> "returned", command |-> command,
                                            cid |-> 0, ret |-> None]]
            /\ UNCHANGED <<calls, is_active>>
       ELSE /\ Len(calls) < CallCap
            /\ LET e == Enter(calls, is_active, RouteOf[command][1]) IN
                /\ calls' = e.calls
                /\ is_active' = e.active
            /\ cmds' = [cmds EXCEPT ![k] = [pc |-> "awaiting", command |-> command,
                                            cid |-> Len(calls) + 1, ret |-> << >>]]
    /\ UNCHANGED <<agent_actions, reqs, sched_vars, time_vars, gate_vars>>

\* the await manual_command is suspended in returns
CommandResumes(k) ==
    /\ cmds[k].pc = "awaiting"
    /\ Due(calls[cmds[k].cid].wake)
    /\ \E db_ok \in DbOutcomes :
        \E s \in {Resume(cmds[k].cid, db_ok)} :
        /\ calls' = [calls EXCEPT ![cmds[k].cid] = s.call]
        /\ agent_actions' = s.audit
        /\ is_active' = s.active
        /\ cmds' = [cmds EXCEPT ![k] =
                        CASE s.call.pc = "returned" ->
                                [@ EXCEPT !.pc = "returned",
                                          !.ret = Returned(s.call.result)]
                          [] s.call.pc = "raised" -> [@ EXCEPT !.pc = "raised"]
                          [] OTHER -> @]
    /\ UNCHANGED <<reqs, sched_vars, time_vars, gate_vars>>

\* the await the handler's call is suspended in raises
RequestAwaitRaises(i) ==
    /\ faults
    /\ reqs[i].pc = "awaiting"
    /\ LET s == AwaitRaises(reqs[i].cid) IN
        /\ calls' = [calls EXCEPT ![reqs[i].cid] = s.call]
        /\ agent_actions' = s.audit
        /\ is_active' = s.active
        /\ reqs' = [reqs EXCEPT ![i] = ReqAfter(reqs[i], s.call)]
    /\ UNCHANGED <<cmds, sched_vars, time_vars, gate_vars>>

(***************************************************************************)
(* AutonomousScheduler and AIArmourSystem.start_autonomous_mode.           *)
(***************************************************************************)
\* whether asyncio.gather has all its coroutines finished without exception
AllExited(lps, s) == \A n \in LoopNames : lps[<<s, n>>].pc = "exited"

\* a start() that launches the loops and forgets  self.is_running = True
StartAutonomousForgetsFlag(s) ==
    /\ start_pc[s] = "unborn"
    /\ \A t \in Starts : t < s => start_pc[t] # "unborn"
    /\ start_pc' = [start_pc EXCEPT ![s] = "gathering"]
    /\ loops' = [l \in LoopIds |->
                    IF l[1] = s THEN [loops[l] EXCEPT !.pc = "ready", !.wake = now]
                    ELSE loops[l]]
    /\ UNCHANGED <<is_running, agent_vars, reqs, cmds, time_vars, gate_vars>>

\* the task created by POST /api/system/start-autonomous runs start() up to
\* its await of asyncio.gather, which schedules the three loops
StartAutonomous(s) ==
    /\ start_pc[s] = "unborn"
    /\ \A t \in Starts : t < s => start_pc[t] # "unborn"
    /\ is_running' = TRUE
    /\ start_pc' = [start_pc EXCEPT ![s] = "gathering"]
    /\ loops' = [l \in LoopIds |->
                    IF l[1] = s THEN [loops[l] EXCEPT !.pc = "ready", !.wake = now]
                    ELSE loops[l]]
    /\ UNCHANGED <<agent_vars, reqs, cmds, time_vars, gate_vars>>

\* a loop that repeats without testing the flag (while True)
LoopWakesIgnoresFlag(l) ==
    LET lp == loops[l]
        todo == LoopCalls(l[2])
    IN
    /\ lp.pc \in {"ready", "sleeping"}
    /\ Due(lp.wake)
    /\ IF Len(todo) = 0
       THEN /\ loops' = [loops EXCEPT ![l] =
                            [lp EXCEPT !.pc = "sleeping",
                                       !.wake = After(LoopInterval(l[2]))]]
            /\ UNCHANGED <<start_pc, agent_vars>>
       ELSE /\ Len(calls) < CallCap
            /\ LET e == Enter(calls, is_active, todo[1]) IN
                /\ calls' = e.calls
                /\ is_active' = e.active
            /\ loops' = [loops EXCEPT ![l] =
                            [lp EXCEPT !.pc = "awaiting", !.k = 1,
                                       !.cid = Len(calls) + 1]]
            /\ UNCHANGED <<start_pc, agent_actions>>
    /\ UNCHANGED <<reqs, cmds, is_running, time_vars, gate_vars>>

\* a loop coroutine runs for the first time or returns from its sleep: it
\* tests  while self.is_running  and runs up to its next await
LoopWakes(l) ==
    LET lp == loops[l]
        todo == LoopCalls(l[2])
    IN
    /\ lp.pc \in {"ready", "sleeping"}
    /\ Due(lp.wake)
    /\ IF ~is_running
       THEN LET lps == [loops EXCEPT ![l] = [lp EXCEPT !.pc = "exited"]] IN
            /\ loops' = lps
            /\ start_pc' = IF AllExited(lps, l[1]) /\ start_pc[l[1]] = "gathering"
                           THEN [start_pc EXCEPT ![l[1]] = "returned"]
                           ELSE start_pc
            /\ UNCHANGED agent_vars
       ELSE IF Len(todo) = 0
       THEN /\ loops' = [loops EXCEPT ![l] =
                            [lp EXCEPT !.pc = "sleeping",
                                       !.wake = After(LoopInterval(l[2]))]]
            /\ UNCHANGED <<start_pc, agent_vars>>
       ELSE /\ Len(calls) < CallCap
            /\ LET e == Enter(calls, is_active, todo[1]) IN
                /\ calls' = e.calls
                /\ is_active' = e.active
            /\ loops' = [loops EXCEPT ![l] =
                            [lp EXCEPT !.pc = "awaiting", !.k = 1,
                                       !.cid = Len(calls) + 1]]
            /\ UNCHANGED <<start_pc, agent_actions>>
    /\ UNCHANGED <<reqs, cmds, is_running, time_vars, gate_vars>>

\* the loop after a segment s of its current call: the next agent call of the
\* iteration, the sleep that ends the iteration, or the end of the coroutine
\* when the call raised (nothing in the loop catches it; gather hands the
\* first exception to start())
LoopContinues(l, s) ==
    LET lp == loops[l]
        todo == LoopCalls(l[2])
        cs == [calls EXCEPT ![lp.cid] = s.call]
    IN
    IF s.call.pc = "returned" /\ lp.k < Len(todo)
    THEN /\ Len(calls) < CallCap
         /\ LET e == Enter(cs, s.active, todo[lp.k + 1]) IN
             /\ calls' = e.calls
             /\ is_active' = e.active
         /\ agent_actions' = s.audit
         /\ loops' = [loops EXCEPT ![l] =
                         [lp EXCEPT !.k = lp.k + 1, !.cid = Len(calls) + 1]]
         /\ UNCHANGED start_pc
    ELSE /\ calls' = cs
         /\ is_active' = s.active
         /\ agent_actions' = s.audit
         /\ loops' = [loops EXCEPT ![l] =
                         CASE s.call.pc = "returned" ->
                                 [lp EXCEPT !.pc = "sleeping", !.k = 0, !.cid = 0,
                                            !.wake = After(LoopInterval(l[2]))]
                           [] s.call.pc = "raised" -> [lp EXCEPT !.pc = "raised"]
                           [] OTHER -> lp]
         /\ start_pc' = IF s.call.pc = "raised" /\ start_pc[l[1]] = "gathering"
                        THEN [start_pc EXCEPT ![l[1]] = "raised"]
                        ELSE start_pc

\* awaits that are served one at a time, the oldest call first, as a
\* provider called synchronously would serve them
LoopResumesInTurn(l) ==
    /\ loops[l].pc = "awaiting"
    /\ \A m \in LoopIds : loops[m].pc = "awaiting" => loops[l].cid <= loops[m].cid
    /\ Due(calls[loops[l].cid].wake)
    /\ \E db_ok \in DbOutcomes :
        \E s \in {Resume(loops[l].cid, db_ok)} : LoopContinues(l, s)
    /\ UNCHANGED <<reqs, cmds, is_running, time_vars, gate_vars>>

\* the await the loop's current call is suspended in returns
LoopResumes(l) ==
    /\ loops[l].pc = "awaiting"
    /\ Due(calls[loops[l].cid].wake)
    /\ \E db_ok \in DbOutcomes :
        \E s \in {Resume(loops[l].cid, db_ok)} : LoopContinues(l, s)
    /\ UNCHANGED <<reqs, cmds, is_running, time_vars, gate_vars>>

\* the await the loop's current call is suspended in raises
LoopAwaitRaises(l) ==
    /\ faults
    /\ loops[l].pc = "awaiting"
    /\ LoopContinues(l, AwaitRaises(loops[l].cid))
    /\ UNCHANGED <<reqs, cmds, is_running, time_vars, gate_vars>>

\* a caller invokes stop() on the running scheduler.  AutonomousScheduler
\* defines no such method and is_running is assigned nowhere but in __init__
\* and at the head of start(): the call raises AttributeError and the
\* scheduler is as it was.  stop_at remembers when it was asked: once, and
\* while an interval of the slowest loop still fits under the horizon.
Stop ==
    /\ is_running
    /\ stop_at = -1
    /\ now + DailyInterval < Horizon
    /\ stop_at' = now
    /\ UNCHANGED is_running
    /\ UNCHANGED <<agent_vars, reqs, cmds, loops, start_pc, now, timed, faults, gate_vars>>

\* The stop() the loops are written for: it clears the flag they test.  The
\* class defines none; this one is taken from the description of the
\* scheduler (stop() moves Running to Stopping), asked once.
StopAutonomousMode ==
    /\ is_running
    /\ stop_at = -1
    /\ now + DailyInterval < Horizon
    /\ is_running' = FALSE
    /\ stop_at' = now
    /\ UNCHANGED <<agent_vars, reqs, cmds, loops, start_pc, now, timed, faults, gate_vars>>

\* the times at which a suspended coroutine is to be resumed
PendingWakes ==
    { calls[c].wake : c \in { d \in 1..Len(calls) : InFlight(calls[d]) } }
    \cup { loops[l].wake : l \in { m \in LoopIds : loops[m].pc \in {"ready", "sleeping"} } }

\* the event loop has nothing to run and sleeps until the next timer is due
Tick ==
    /\ timed
    /\ PendingWakes # {}
    /\ \A w \in PendingWakes : w > now
    /\ now' = CHOOSE w \in PendingWakes : \A v \in PendingWakes : w <= v
    /\ now' <= Horizon
    /\ UNCHANGED <<agent_vars, reqs, cmds, sched_vars, timed, stop_at, faults, gate_vars>>

(***************************************************************************)
(* Specifications.                                                         *)
(***************************************************************************)
\* one call of requires_fact_check
GateEval ==
    /\ gate_pc = "ready"
    /\ gate_out' = RequiresFactCheck(gate_task)
    /\ gate_pc' = "done"
    /\ UNCHANGED <<gate_task, agent_vars, reqs, cmds, sched_vars, time_vars>>

Init ==
    /\ SystemInit
    /\ timed = FALSE
    /\ faults = FALSE
    /\ GateIdle

Next ==
    \/ \E i \in ReqIds : \E inv \in ApiCalls : RequestArrives(i, inv)
    \/ \E i \in ReqIds : RequestResumes(i)

\* the agents under the calls of the HTTP routes, in an environment that
\* does not fail
Spec == Init /\ [][Next]_vars

InitFaults ==
    /\ SystemInit
    /\ timed = FALSE
    /\ faults = TRUE
    /\ GateIdle

NextFaults ==
    \/ \E i \in ReqIds : \E inv \in ApiCalls : RequestArrives(i, inv)
    \/ \E i \in ReqIds : RequestResumes(i)
    \/ \E i \in ReqIds : RequestAwaitRaises(i)

\* the same in an environment that may fail
SpecFaults == InitFaults /\ [][NextFaults]_vars

NextCmd ==
    \/ \E k \in CmdIds : \E command \in Commands : CommandArrives(k, command)
    \/ \E k \in CmdIds : CommandResumes(k)

\* the agents under manual commands, in an environment that does not fail
SpecCmd == Init /\ [][NextCmd]_vars

NextMixed ==
    \/ StartAutonomous(1)
    \/ \E l \in LoopIds : LoopWakes(l)
    \/ \E l \in LoopIds : LoopResumes(l)
    \/ \E inv \in ApiCalls : RequestArrives(1, inv)
    \/ RequestResumes(1)

\* the loops of one start() and one route handler on one event loop, in an
\* environment that does not fail
SpecMixed == Init /\ [][NextMixed]_vars

NextSched ==
    \/ StartAutonomous(1)
    \/ \E l \in LoopIds : LoopWakes(l)
    \/ \E l \in LoopIds : LoopResumes(l)
    \/ \E l \in LoopIds : LoopAwaitRaises(l)

\* the agents under the calls of the scheduler loops, in an environment that
\* may fail
SpecSched == InitFaults /\ [][NextSched]_vars

\* the scheduler with the durations of the code and with stop(), in an
\* environment that does not fail
InitTimed ==
    /\ SystemInit
    /\ timed = TRUE
    /\ faults = FALSE
    /\ GateIdle

NextTimed ==
    \/ StartAutonomous(1)
    \/ \E l \in LoopIds : LoopWakes(l)
    \/ \E l \in LoopIds : LoopResumes(l)
    \/ Stop
    \/ Tick

SpecTimed == InitTimed /\ [][NextTimed]_vars

NextOneStart ==
    \/ StartAutonomous(1)
    \/ \E l \in LoopIds : LoopWakes(l)
    \/ \E l \in LoopIds : LoopResumes(l)
    \/ \E l \in LoopIds : LoopAwaitRaises(l)

\* the scheduler started once, in an environment that may fail
SpecOneStart == InitFaults /\ [][NextOneStart]_vars

NextClock ==
    \/ StartAutonomous(1)
    \/ \E l \in LoopIds : LoopWakes(l)
    \/ \E l \in LoopIds : LoopResumes(l)
    \/ Tick

\* the scheduler started once and left to run, with the durations of the
\* code, in an environment that does not fail
SpecClock == InitTimed /\ [][NextClock]_vars

NextRestart ==
    \/ \E s \in Starts : StartAutonomous(s)
    \/ \E l \in LoopIds : LoopWakes(l)
    \/ \E l \in LoopIds : LoopResumes(l)

\* the scheduler started more than once (POST /api/system/start-autonomous
\* sent again), in an environment that does not fail
SpecRestart == Init /\ [][NextRestart]_vars

NextStopping ==
    \/ StartAutonomous(1)
    \/ \E l \in LoopIds : LoopWakes(l)
    \/ \E l \in LoopIds : LoopResumes(l)
    \/ StopAutonomousMode
    \/ Tick

\* the scheduler started once, with the durations of the code, and a flag
\* that is cleared at some moment of the first hour
SpecStopping == InitTimed /\ [][NextStopping]_vars

\* the gate on its own: any task description, one call
InitGate ==
    /\ SystemInit
    /\ timed = FALSE
    /\ faults = FALSE
    /\ gate_task \in GateTasks
    /\ gate_pc = "ready"
    /\ gate_out = FALSE

NextGate == GateEval

SpecGate == InitGate /\ [][NextGate]_vars

(***************************************************************************)
(* What the claims speak of.                                               *)
(***************************************************************************)
CallIds == 1..Len(calls)

\* the call has ended: it returned to its caller or an exception left it
Ended(c) == calls[c].pc \in {"returned", "raised"}

\* the rows of agent_actions written by call c
RowsOf(c) == { r \in 1..Len(agent_actions) : agent_actions[r].call = c }

(***************************************************************************)
(* C1: every execute_task call that has ended has appended exactly one     *)
(* row to the audit table, and the success of that row is the success of   *)
(* the result returned to the caller.                                      *)
(***************************************************************************)
C1_ExactlyOneAuditRow ==
    \A c \in CallIds :
        Ended(c) =>
            /\ Cardinality(RowsOf(c)) = 1
            /\ \A r \in RowsOf(c) :
                   agent_actions[r].success = Get(calls[c].result, "success", FALSE)

(***************************************************************************)
(* C2: requires_fact_check(task) is true if and only if the lower-cased    *)
(* task description contains one of the five keywords price, invoice,      *)
(* payment, financial, contract at some position; otherwise it is false.   *)
(***************************************************************************)
C2_GateIffKeyword ==
    gate_pc = "done" =>
        ( gate_out <=>
            \E kw \in { <<"p","r","i","c","e">>, <<"i","n","v","o","i","c","e">>,
                        <<"p","a","y","m","e","n","t">>,
                        <<"f","i","n","a","n","c","i","a","l">>,
                        <<"c","o","n","t","r","a","c","t">> } :
                \E off \in 0..(Len(gate_task) - Len(kw)) :
                    \A j \in 1..Len(kw) : LowerChar(gate_task[off + j]) = kw[j] )

\* the gate answered true for a description that spells its keyword with an
\* upper-case letter and over two fragments
C2_Witness ==
    /\ gate_pc = "done"
    /\ gate_out
    /\ gate_task = <<"P","r","i","c","e"," ">>

(***************************************************************************)
(* C3: when an awaited stage raises in an execute_task call, no exception  *)
(* leaves the call: it returns a result whose success is false.            *)
(***************************************************************************)
C3_StageFailureCaptured ==
    \A c \in CallIds :
        calls[c].fault = "stage" =>
            /\ calls[c].pc = "returned"
            /\ Get(calls[c].result, "success", TRUE) = FALSE

(***************************************************************************)
(* C4: on every exit path of execute_task, the raising ones included, the  *)
(* call leaves the activity flag false and an audit row for the call is    *)
(* written, with success false when something raised.                      *)
(***************************************************************************)
C4_EveryExitClearsAndLogs ==
    \A c \in CallIds :
        Ended(c) =>
            /\ calls[c].active_after = FALSE
            /\ RowsOf(c) # {}
            /\ calls[c].fault # "none" =>
                   \A r \in RowsOf(c) : agent_actions[r].success = FALSE

(***************************************************************************)
(* C5: when log_action fails inside execute_task, no exception leaves the  *)
(* call: it returns the final result of the pipeline and leaves the        *)
(* activity flag false.                                                    *)
(***************************************************************************)
C5_AuditFailureContained ==
    \A c \in CallIds :
        calls[c].fault = "log" =>
            /\ calls[c].pc = "returned"
            /\ calls[c].active_after = FALSE

(***************************************************************************)
(* C6: an exception in one iteration of a scheduler loop ends neither that *)
(* loop nor the other loops: while the running flag is true every started  *)
(* loop is still iterating.                                                *)
(***************************************************************************)
C6_LoopsSurviveExceptions ==
    \A l \in LoopIds :
        (is_running /\ loops[l].pc # "unborn") =>
            loops[l].pc \in {"ready", "awaiting", "sleeping"}

(***************************************************************************)
(* C7: once more than one full interval of the slowest loop has passed     *)
(* since stop(), every loop has ended and the scheduler is idle.           *)
(***************************************************************************)
C7_IdleOneIntervalAfterStop ==
    (stop_at >= 0 /\ now > stop_at + DailyInterval) =>
        /\ ~is_running
        /\ \A l \in LoopIds : loops[l].pc \in {"unborn", "exited", "raised"}

(***************************************************************************)
(* C8: a call that no other call on its agent overlaps finds the activity  *)
(* flag false and, when it has returned, has left it false.                *)
(***************************************************************************)
C8_FlagFalseAroundSerialCall ==
    \A c \in CallIds :
        ~calls[c].overlapped =>
            /\ calls[c].active_before = FALSE
            /\ calls[c].pc = "returned" => calls[c].active_after = FALSE

(***************************************************************************)
(* C9: whenever the activity flag of an agent is true, an execute_task     *)
(* call on that agent is in flight.                                        *)
(***************************************************************************)
C9_ActiveOnlyWhileInFlight ==
    \A a \in AgentTypes :
        is_active[a] => \E c \in CallIds : InFlight(calls[c]) /\ calls[c].agent = a

(***************************************************************************)
(* C10: the result execute_task returns holds every field the executor     *)
(* produced for the task, with the executor's value.                       *)
(***************************************************************************)
C10_ExecutorFieldsKept ==
    \A c \in CallIds :
        calls[c].pc = "returned" =>
            LET produced == ExecuteWithGrok(calls[c].agent, calls[c].task,
                                            calls[c].context)
            IN  \A f \in DOMAIN produced :
                    /\ f \in DOMAIN calls[c].result
                    /\ calls[c].result[f] = produced[f]

\* a call has returned after all three stages ran
C10_Witness ==
    \E c \in CallIds :
        /\ calls[c].pc = "returned"
        /\ "verified" \in DOMAIN calls[c].result
        /\ "fact_checked" \in DOMAIN calls[c].result

(***************************************************************************)
(* C11: every result returned by execute_task, being the executor's result *)
(* augmented, carries a boolean success field.                             *)
(***************************************************************************)
C11_ResultCarriesSuccess ==
    \A c \in CallIds :
        calls[c].pc = "returned" =>
            /\ "success" \in DOMAIN calls[c].result
            /\ calls[c].result["success"] \in BOOLEAN

(***************************************************************************)
(* C12: the final result of execute_task has verified true; it has         *)
(* fact_checked true when requires_fact_check holds for the task and no    *)
(* fact_checked field at all when it does not.                             *)
(***************************************************************************)
C12_VerifiedAndGatedFactCheck ==
    \A c \in CallIds :
        calls[c].pc = "returned" =>
            LET final == calls[c].result
                gate == RequiresFactCheck(Chars(calls[c].task))
            IN  /\ Get(final, "verified", FALSE) = TRUE
                /\ gate => Get(final, "fact_checked", FALSE) = TRUE
                /\ ~gate => "fact_checked" \notin DOMAIN final

\* "Send payment reminder for INV-7" has returned verified and fact-checked
\* and a description without keyword has returned verified only
C12_Witness ==
    /\ \E c \in CallIds :
        /\ calls[c].pc = "returned"
        /\ calls[c].task = "Send payment reminder for INV-7"
        /\ Get(calls[c].result, "fact_checked", FALSE) = TRUE
    /\ \E c \in CallIds :
        /\ calls[c].pc = "returned"
        /\ calls[c].task = "Follow up with lead L1"
        /\ "fact_checked" \notin DOMAIN calls[c].result

(***************************************************************************)
(* C13: the keyword match is by substring, not by whole word.              *)
(***************************************************************************)
\* the characters of task from offset off on spell word, whatever their case
OccursAt(word, task, off) ==
    /\ off + Len(word) <= Len(task)
    /\ \A j \in 1..Len(word) : LowerChar(task[off + j]) = word[j]

Occurs(word, task) == \E off \in 0..Len(task) : OccursAt(word, task, off)

IsLetter(c) == \E i \in 1..Len(LowerCase) : LowerCase[i] = LowerChar(c)

\* C13 as stated: a description containing the word "pricing" matches the
\* keyword "price", so the gate is true for it
C13_PricingMatchesPrice ==
    (gate_pc = "done" /\ Occurs(<<"p","r","i","c","i","n","g">>, gate_task))
        => gate_out

\* C13 as amended: a keyword that is part of a longer word matches; a
\* description containing "pricing" and none of the five keywords does not
C13_SubstringNotWholeWord ==
    gate_pc = "done" =>
        /\ \A k \in 1..Len(fact_check_keywords) :
            LET kw == fact_check_keywords[k] IN
            \A off \in 0..Len(gate_task) :
                ( /\ OccursAt(kw, gate_task, off)
                  /\ \/ off > 0 /\ IsLetter(gate_task[off])
                     \/ /\ off + Len(kw) < Len(gate_task)
                        /\ IsLetter(gate_task[off + Len(kw) + 1]) )
                    => gate_out
        /\ ( /\ Occurs(<<"p","r","i","c","i","n","g">>, gate_task)
             /\ \A k \in 1..Len(fact_check_keywords) :
                    ~Occurs(fact_check_keywords[k], gate_task) )
                => ~gate_out

\* the gate answered false for "Pricing"
C13_Witness ==
    /\ gate_pc = "done"
    /\ ~gate_out
    /\ gate_task = <<"P","r","i","c","i","n","g">>

(***************************************************************************)
(* What the claims on manual_command speak of.                             *)
(***************************************************************************)
QuoteWord == <<"q","u","o","t","e">>
InvoiceWord == <<"i","n","v","o","i","c","e">>

\* manual_command has been called for command k
Started(k) == cmds[k].pc # "idle"

\* the execute_task calls made for a command text, the rows they wrote and
\* the manual_command calls that were given that text
CallsFor(command) ==
    { c \in CallIds : calls[c].context.command = <<"str", command>> }
RowsFor(command) ==
    { r \in 1..Len(agent_actions) : agent_actions[r].call \in CallsFor(command) }
CmdsWith(command) == { k \in CmdIds : Started(k) /\ cmds[k].command = command }

\* command k was handed to the finance agent and returned what that call
\* returned
ToFinance(k) ==
    /\ cmds[k].pc # "raised"
    /\ cmds[k].cid # 0
    /\ calls[cmds[k].cid].agent = "finance"
    /\ cmds[k].pc = "returned" =>
           /\ calls[cmds[k].cid].pc = "returned"
           /\ cmds[k].ret = Returned(calls[cmds[k].cid].result)

(***************************************************************************)
(* C14 as stated: a command whose text contains "invoice", in any letter   *)
(* case, makes manual_command call execute_task on the finance agent and   *)
(* return that call's result.                                              *)
(***************************************************************************)
C14_InvoiceToFinance ==
    \A k \in CmdIds :
        (Started(k) /\ Occurs(InvoiceWord, cmds[k].command)) => ToFinance(k)

\* C14 as amended: the same for a command whose text contains "invoice" and
\* does not contain "quote"
C14_InvoiceWithoutQuoteToFinance ==
    \A k \in CmdIds :
        ( /\ Started(k)
          /\ Occurs(InvoiceWord, cmds[k].command)
          /\ ~Occurs(QuoteWord, cmds[k].command) ) => ToFinance(k)

\* "please send INVOICE now" has returned the result of a finance call
C14_Witness ==
    \E k \in CmdIds :
        /\ cmds[k].pc = "returned"
        /\ cmds[k].command = <<"p","l","e","a","s","e"," ","s","e","n","d"," ","I","N","V","O","I","C","E"," ","n","o","w">>
        /\ ToFinance(k)

(***************************************************************************)
(* C15: routing is first-match: for every command at most one execute_task *)
(* call is made and at most one audit row written, and a command           *)
(* containing both "quote" and "invoice" goes to the sales agent only.     *)
(***************************************************************************)
C15_FirstMatchOnly ==
    \A command \in Commands :
        /\ Cardinality(CallsFor(command)) <= Cardinality(CmdsWith(command))
        /\ Cardinality(RowsFor(command)) <= Cardinality(CmdsWith(command))
        /\ (Occurs(QuoteWord, command) /\ Occurs(InvoiceWord, command)) =>
               /\ Cardinality(CallsFor(command)) = Cardinality(CmdsWith(command))
               /\ \A c \in CallsFor(command) : calls[c].agent = "sales"

\* "Invoice the QUOTE" has returned after one call, on the sales agent, and
\* one audit row
C15_Witness ==
    \E k \in CmdIds :
        /\ cmds[k].pc = "returned"
        /\ cmds[k].command = <<"I","n","v","o","i","c","e"," ","t","h","e"," ","Q","U","O","T","E">>
        /\ calls[cmds[k].cid].agent = "sales"
        /\ Cardinality(RowsFor(cmds[k].command)) = 1

(***************************************************************************)
(* C16: a command that matches no rule gets an explicit "unrouted"         *)
(* outcome: manual_command returns it without raising, calls no agent and  *)
(* writes no audit row.                                                    *)
(***************************************************************************)
C16_UnroutedIsExplicit ==
    \A k \in CmdIds :
        ( /\ Started(k)
          /\ ~Occurs(QuoteWord, cmds[k].command)
          /\ ~Occurs(InvoiceWord, cmds[k].command) ) =>
            /\ cmds[k].pc = "returned"
            /\ cmds[k].cid = 0
            /\ CallsFor(cmds[k].command) = {}
            /\ RowsFor(cmds[k].command) = {}
            /\ cmds[k].ret # None

(***************************************************************************)
(* What the claims on the scheduler speak of.                              *)
(***************************************************************************)
\* a loop coroutine that has been launched and has not ended
Live(lp) == lp.pc \in {"ready", "awaiting", "sleeping"}

\* The scheduler has one flag.  It is Running while the flag is true,
\* Stopping while the flag is false and a loop has yet to see it, Idle
\* otherwise.
SchedState ==
    IF is_running THEN "Running"
    ELSE IF \E l \in LoopIds : Live(loops[l]) THEN "Stopping"
    ELSE "Idle"

\* loop l begins an iteration in this step
Iterates(l) ==
    /\ loops[l].pc \in {"ready", "sleeping"}
    /\ loops'[l].pc \in {"awaiting", "sleeping"}
    /\ loops'[l] # loops[l]

(***************************************************************************)
(* C17: the scheduler state moves along Idle -> Running -> Stopping ->     *)
(* Idle only; start() from Idle sets it to Running and launches the three  *)
(* loops; no loop begins an iteration while it is Idle.                    *)
(***************************************************************************)
C17_StateMachine ==
    [][ /\ SchedState' # SchedState =>
             <<SchedState, SchedState'>> \in { <<"Idle", "Running">>,
                                              <<"Running", "Stopping">>,
                                              <<"Stopping", "Idle">> }
        /\ \A s \in Starts :
             ( /\ SchedState = "Idle"
               /\ start_pc[s] = "unborn"
               /\ start_pc'[s] # "unborn" ) =>
                 /\ SchedState' = "Running"
                 /\ \A n \in LoopNames : loops'[<<s, n>>].pc = "ready"
        /\ \A l \in LoopIds : Iterates(l) => SchedState # "Idle" ]_vars

\* the scheduler is Running, its three loops have been launched and each
\* has begun an iteration
C17_Witness ==
    /\ SchedState = "Running"
    /\ \A n \in LoopNames : loops[<<1, n>>].pc \in {"awaiting", "sleeping"}

(***************************************************************************)
(* C18: start_autonomous_mode() does not block: once time has passed since *)
(* the call it has returned to its caller, with the scheduler running.     *)
(***************************************************************************)
C18_StartReturnsWhileLoopsRun ==
    \A s \in Starts :
        (start_pc[s] # "unborn" /\ now > 0) =>
            (start_pc[s] = "returned" /\ is_running)

(***************************************************************************)
(* C19: loops never block each other: while a loop is suspended in a sleep *)
(* or stalled in a stage, every other loop and every route handler can     *)
(* take its next step.                                                     *)
(***************************************************************************)
\* loop l is suspended: in its sleep, or in a stage of an agent call
Stalled(l) == loops[l].pc \in {"awaiting", "sleeping"}

C19_LoopsDoNotBlock ==
    Len(calls) < CallCap =>
        /\ \A m \in LoopIds :
            (\E l \in LoopIds \ {m} : Stalled(l)) =>
                /\ loops[m].pc \in {"ready", "sleeping"} => ENABLED LoopWakes(m)
                /\ loops[m].pc = "awaiting" => ENABLED LoopResumes(m)
        /\ \A i \in ReqIds :
            (\E l \in LoopIds : Stalled(l)) =>
                /\ reqs[i].pc = "idle" =>
                       \A inv \in ApiCalls : ENABLED RequestArrives(i, inv)
                /\ reqs[i].pc = "awaiting" => ENABLED RequestResumes(i)

\* the hourly loop is still in the first stage of its first agent call
\* while the daily loop has completed an iteration and a route handler has
\* returned
C19_Witness ==
    /\ loops[<<1, "hourly">>].pc = "awaiting"
    /\ loops[<<1, "hourly">>].k = 1
    /\ calls[loops[<<1, "hourly">>].cid].pc = "grok"
    /\ Cardinality({ r \in 1..Len(agent_actions) :
                        agent_actions[r].action = "Process sales enquiry from auto@system" }) = 0
    /\ loops[<<1, "daily">>].pc = "sleeping"
    /\ \E i \in ReqIds : reqs[i].pc = "returned"

ExecutorDone(result) == "agent" \in DOMAIN result
VerifierDone(result) == "verified" \in DOMAIN result
FactCheckerDone(result) == "fact_checked" \in DOMAIN result

\* the position of a call in execute_task, as a number
Rank(pc) ==
    CASE pc = "grok" -> 1
      [] pc = "claude" -> 2
      [] pc = "fact" -> 3
      [] pc \in {"returned", "raised"} -> 4

(***************************************************************************)
(* C21: within one call the executor completes before the verifier starts, *)
(* the verifier before the fact checker starts (when the gate is true),    *)
(* the audit row is written only after the last stage has completed and    *)
(* the call clears the flag only after the row is written.                 *)
(***************************************************************************)
C21_StepsInOrder ==
    [][ \A c \in 1..Len(calls') :
          LET call == calls'[c]
              gate == RequiresFactCheck(Chars(call.task))
          IN  /\ call.pc = "grok" => ~ExecutorDone(call.result)
              /\ call.pc = "claude" =>
                     ExecutorDone(call.result) /\ ~VerifierDone(call.result)
              /\ call.pc = "fact" =>
                     /\ gate
                     /\ VerifierDone(call.result)
                     /\ ~FactCheckerDone(call.result)
              /\ \A r \in 1..Len(agent_actions') :
                     agent_actions'[r].call = c =>
                        /\ ExecutorDone(agent_actions'[r].details)
                        /\ VerifierDone(agent_actions'[r].details)
                        /\ FactCheckerDone(agent_actions'[r].details) <=> gate
                        /\ call.pc = "returned"
              /\ call.pc = "returned" =>
                     \E r \in 1..Len(agent_actions') : agent_actions'[r].call = c
              /\ (c <= Len(calls) /\ call.pc # calls[c].pc) =>
                     <<calls[c].pc, call.pc>> \in
                        { <<"grok", "claude">>, <<"claude", "fact">>,
                          <<"claude", "returned">>, <<"fact", "returned">>,
                          <<"grok", "raised">>, <<"claude", "raised">>,
                          <<"fact", "raised">> } ]_vars

\* a call whose gate is true has returned: its row is written and its agent's
\* flag is false
C21_Witness ==
    \E c \in CallIds :
        /\ calls[c].pc = "returned"
        /\ FactCheckerDone(calls[c].result)
        /\ RowsOf(c) # {}
        /\ ~is_active[calls[c].agent]

(***************************************************************************)
(* C22: execute_task never retries: a call only moves forward through its  *)
(* stages, so each stage is awaited at most once, and a call in which a    *)
(* stage failed has ended.                                                 *)
(***************************************************************************)
C22_NoRetries ==
    [][ \A c \in 1..Len(calls) :
          /\ calls'[c].pc # calls[c].pc => Rank(calls'[c].pc) > Rank(calls[c].pc)
          /\ calls'[c].pc = calls[c].pc => calls'[c].result = calls[c].result
          /\ calls'[c].fault # "none" => calls'[c].pc = "raised" ]_vars

\* a call has ended by the failure of a stage and another has returned after
\* its three stages
C22_Witness ==
    /\ \E c \in CallIds : calls[c].fault = "stage" /\ calls[c].pc = "raised"
    /\ \E c \in CallIds :
        calls[c].pc = "returned" /\ FactCheckerDone(calls[c].result)

(***************************************************************************)
(* C25: the flag is one boolean, not a count: a call that returns leaves   *)
(* the flag of its agent false whatever other calls on that agent are in   *)
(* flight, so the flag can read false during a call.                       *)
(***************************************************************************)
C25_ReturnClearsFlag ==
    [][ \A c \in 1..Len(calls) :
          (InFlight(calls[c]) /\ calls'[c].pc = "returned") =>
              ~is_active'[calls[c].agent] ]_vars

\* of two overlapping calls on one agent one has returned and the other is
\* in flight while the flag reads false
C25_Witness ==
    \E c, d \in CallIds :
        /\ calls[c].agent = calls[d].agent
        /\ calls[c].pc = "returned" /\ calls[c].overlapped
        /\ InFlight(calls[d])
        /\ ~is_active[calls[d].agent]

(***************************************************************************)
(* C27: the gate of a manual command follows the task description of the   *)
(* rule that matched, not the command text: what a command handed to the   *)
(* finance agent returns is marked fact_checked, what a command handed to  *)
(* the sales agent returns is not, whatever gate keywords the command      *)
(* holds.                                                                  *)
(***************************************************************************)
C27_GateFollowsRule ==
    \A k \in CmdIds :
        (cmds[k].pc = "returned" /\ cmds[k].cid # 0) =>
            LET call == calls[cmds[k].cid]
                ret == cmds[k].ret[2]
            IN  /\ call.agent \in {"sales", "finance"}
                /\ cmds[k].ret = Returned(call.result)
                /\ call.agent = "finance" =>
                       /\ FactCheckerDone(ret)
                       /\ ret["fact_checked"] = TRUE
                /\ call.agent = "sales" => ~FactCheckerDone(ret)

\* a command with gate keywords in its text went to the sales agent and came
\* back unmarked, and one went to the finance agent and came back marked
C27_Witness ==
    /\ \E k \in CmdIds :
        /\ cmds[k].pc = "returned" /\ cmds[k].cid # 0
        /\ calls[cmds[k].cid].agent = "sales"
        /\ RequiresFactCheck(cmds[k].command)
        /\ ~FactCheckerDone(cmds[k].ret[2])
    /\ \E k \in CmdIds :
        /\ cmds[k].pc = "returned" /\ cmds[k].cid # 0
        /\ calls[cmds[k].cid].agent = "finance"
        /\ FactCheckerDone(cmds[k].ret[2])

(***************************************************************************)
(* What the claim on the order of an iteration speaks of.                  *)
(***************************************************************************)
\* the agent and task of the calls of an iteration, in the order claimed
HourlyOrder ==
    << <<"sales", "Process sales enquiry from auto@system">>,
       <<"logistics", "Check inventory levels">>,
       <<"support", "Monitor deployed systems">> >>
DailyOrder ==
    << <<"sales", "Follow up with warm leads">>,
       <<"finance", "Generate financial report">> >>

IsHourlyCall(call) ==
    \E j \in 1..Len(HourlyOrder) : HourlyOrder[j] = <<call.agent, call.task>>
IsDailyCall(call) ==
    \E j \in 1..Len(DailyOrder) : DailyOrder[j] = <<call.agent, call.task>>

\* the calls mine of loop l, oldest first, follow order round after round,
\* each has returned before the next is made, and the loop sleeps only
\* between rounds, never before its first
IteratesInOrder(l, mine, order) ==
    /\ \A n \in 1..Len(mine) :
          /\ <<mine[n].agent, mine[n].task>> = order[((n - 1) % Len(order)) + 1]
          /\ n < Len(mine) => mine[n].pc = "returned"
    /\ loops[l].pc = "ready" => (Len(mine) = 0 /\ loops[l].wake <= now)
    /\ loops[l].pc = "awaiting" =>
          /\ Len(mine) > 0
          /\ InFlight(mine[Len(mine)])
          /\ loops[l].k = ((Len(mine) - 1) % Len(order)) + 1
    /\ loops[l].pc = "sleeping" =>
          /\ Len(mine) > 0
          /\ Len(mine) % Len(order) = 0
          /\ mine[Len(mine)].pc = "returned"

(***************************************************************************)
(* C23: an hourly iteration calls Sales.process_enquiry, then              *)
(* Logistics.check_inventory, then Support.monitor_systems, a daily one    *)
(* Sales.follow_up_leads, then Finance.generate_financial_report; each     *)
(* call completes before the next starts, the sleep comes after the last,  *)
(* and the first iteration runs on start with no sleep before it.          *)
(***************************************************************************)
C23_IterationOrder ==
    /\ IteratesInOrder(<<1, "hourly">>, SelectSeq(calls, IsHourlyCall), HourlyOrder)
    /\ IteratesInOrder(<<1, "daily">>, SelectSeq(calls, IsDailyCall), DailyOrder)
    /\ Len(calls) = Len(SelectSeq(calls, IsHourlyCall))
                      + Len(SelectSeq(calls, IsDailyCall))

\* the hourly loop is in the second call of its second iteration and the
\* daily loop sleeps after its first
C23_Witness ==
    /\ Len(SelectSeq(calls, IsHourlyCall)) = Len(HourlyOrder) + 2
    /\ loops[<<1, "hourly">>].pc = "awaiting"
    /\ Len(SelectSeq(calls, IsDailyCall)) = Len(DailyOrder)
    /\ loops[<<1, "daily">>].pc = "sleeping"

(***************************************************************************)
(* C24: once the flag is false a loop finishes the agent calls and the     *)
(* sleep of the iteration it is in (a call in flight runs to its return    *)
(* and writes its audit row), sees the flag when it wakes and ends: it     *)
(* begins no iteration and calls no agent beyond that iteration.           *)
(***************************************************************************)
C24_CooperativeStop ==
    [][ ~is_running =>
          /\ \A l \in LoopIds :
                /\ ~Iterates(l)
                /\ (loops[l].pc \in {"ready", "sleeping"} /\ loops'[l] # loops[l]) =>
                       /\ loops'[l].pc = "exited"
                       /\ now >= loops[l].wake
                /\ loops[l].pc = "awaiting" =>
                       /\ loops'[l].pc \in {"awaiting", "sleeping"}
                       /\ loops'[l].k # loops[l].k =>
                              calls'[loops[l].cid].pc = "returned"
                       /\ loops'[l].pc = "sleeping" =>
                              /\ loops[l].k = Len(LoopCalls(l[2]))
                              /\ loops'[l].wake = now + LoopInterval(l[2])
                /\ loops[l].pc = "exited" => loops'[l] = loops[l]
          /\ Len(calls') > Len(calls) =>
                \E l \in LoopIds :
                    /\ loops[l].pc = "awaiting"
                    /\ loops'[l].k = loops[l].k + 1
                    /\ loops'[l].cid = Len(calls')
          /\ \A c \in 1..Len(calls) :
                InFlight(calls[c]) =>
                    /\ calls'[c].pc # "raised"
                    /\ calls'[c].pc = "returned" =>
                           \E r \in 1..Len(agent_actions') :
                               /\ agent_actions'[r].call = c
                               /\ agent_actions'[r].timestamp >= stop_at ]_vars

\* the flag was cleared while the first iterations were in their first agent
\* call: the five calls of those iterations wrote their rows, no other call
\* was made and the three loops have ended
C24_Witness ==
    /\ ~is_running
    /\ stop_at = 0
    /\ \A l \in LoopIds : l[1] = 1 => loops[l].pc = "exited"
    /\ start_pc[1] = "returned"
    /\ Len(calls) = Len(HourlyCalls) + Len(DailyCalls)
    /\ Len(agent_actions) = Len(calls)

(***************************************************************************)
(* C26: whatever start requests arrive, a second one while the scheduler   *)
(* is running included, each of the hourly, daily and continuous loops has *)
(* at most one instance that is launched and has not ended, and so no      *)
(* agent task of a loop is in flight twice at once.                        *)
(***************************************************************************)
C26_OneInstancePerLoop ==
    /\ \A n \in LoopNames :
          Cardinality({ s \in Starts : Live(loops[<<s, n>>]) }) <= 1
    /\ \A c, d \in CallIds :
          ( /\ c # d
            /\ InFlight(calls[c]) /\ InFlight(calls[d])
            /\ calls[c].task = calls[d].task ) =>
              ~IsHourlyCall(calls[c]) /\ ~IsDailyCall(calls[c])

=============================================================================
